---- MODULE Spec2Model ----
(***************************************************************************)
(* License plate recognition (main.py): the per-frame pipeline             *)
(* RobustLicensePlateRecognizer.process_image and the __main__ session     *)
(* loop around it.                                                         *)
(*                                                                         *)
(* The OpenCV preprocessing of get_contours (grayscale, CLAHE, bilateral   *)
(* filter, threshold, Canny, findContours) and the measurements taken of   *)
(* a contour (contourArea, approxPolyDP, boundingRect) are library calls:  *)
(* a frame is modelled by the list of contours findContours yields for it, *)
(* each contour by the values those measurements return for it and by the  *)
(* answer pytesseract gives for its region.                                *)
(***************************************************************************)
EXTENDS Integers, Sequences, FiniteSets, TLC

VARIABLES
  img,              \* argument of the last process_image call
  contours,         \* process_image: contours returned by get_contours
  ocr_calls,        \* the contours whose region was handed to pytesseract
  results,          \* process_image: detections before the duplicate removal
  seen,             \* process_image: the set of texts of the dedupe loop
  unique_results,   \* process_image: its return value
  outcome,          \* "none" | "returned" | "raised" for the last call
  first_call,       \* history: input and outcome of the first call of the run
  pc,               \* position of the script main.py
  dunder_name,      \* __name__ under which main.py is executed
  class_defined,    \* RobustLicensePlateRecognizer is bound in the module
  cap,              \* "none" | "closed" | "opened" | "released"
  frame_count,      \* __main__: frame_count
  detected_plates,  \* __main__: detected_plates, text -> count
  last_detected_plate, \* __main__: last_detected_plate
  saved,            \* the file names passed to cv2.imwrite, in order
  exc,              \* the exception in flight: "none" | "ocr"
  exit_code,        \* None, or the status the process exited with
  read_failed,      \* history: a cap.read() has returned ret = False
  n_calls           \* history: process_image calls made by the frame loops

pivars == <<img, contours, ocr_calls, results, seen, unique_results, outcome>>
mainvars == <<pc, dunder_name, class_defined, cap, frame_count,
              detected_plates, last_detected_plate, saved, exc, exit_code,
              read_failed, n_calls>>
vars == <<img, contours, ocr_calls, results, seen, unique_results, outcome,
          first_call, pc, dunder_name, class_defined, cap, frame_count,
          detected_plates, last_detected_plate, saved, exc, exit_code,
          read_failed, n_calls>>

-----------------------------------------------------------------------------
(* Bounds of the model *)

MaxContours == 3      \* contours of a frame passed by a caller
MaxCamContours == 2   \* contours of a frame of the camera
MaxRawLen == 4        \* characters of a raw OCR answer
MaxFrames == 3        \* frames the camera delivers in one run

-----------------------------------------------------------------------------
(* Program constants *)

MinArea == 300        \* if area < 300: continue
MinCorners == 4       \* 4 <= len(approx)
MaxCorners == 8       \* len(approx) <= 8
MinTextLen == 4       \* len(clean_text) >= 4
TopContours == 30     \* sorted(...)[:30]

None == <<"<None>">>          \* Python None (never equal to a text)
Running == -1                 \* exit_code of a process that has not exited
OcrRaises == <<"<raise>">>    \* pytesseract.image_to_string raises

-----------------------------------------------------------------------------
(* Text cleaning: .strip(), .upper(), re.sub(r'[^A-Z0-9]', '', ...)        *)
(* A string is a sequence of one-character strings.                        *)

LowerCase == <<"a","b","c","d","e","f","g","h","i","j","k","l","m",
               "n","o","p","q","r","s","t","u","v","w","x","y","z">>
UpperCase == <<"A","B","C","D","E","F","G","H","I","J","K","L","M",
               "N","O","P","Q","R","S","T","U","V","W","X","Y","Z">>
Digits == <<"0","1","2","3","4","5","6","7","8","9">>
Whitespace == {" ", "\n", "\t", "\r"}

Range(s) == {s[i] : i \in DOMAIN s}

PlateChars == Range(UpperCase) \cup Range(Digits)

upper_char(ch) ==
  IF \E i \in DOMAIN LowerCase : LowerCase[i] = ch
  THEN UpperCase[CHOOSE i \in DOMAIN LowerCase : LowerCase[i] = ch]
  ELSE ch

upper(s) == [i \in DOMAIN s |-> upper_char(s[i])]

RECURSIVE lstrip(_)
lstrip(s) ==
  IF s # <<>> /\ Head(s) \in Whitespace THEN lstrip(Tail(s)) ELSE s

RECURSIVE rstrip(_)
rstrip(s) ==
  IF s # <<>> /\ s[Len(s)] \in Whitespace
  THEN rstrip(SubSeq(s, 1, Len(s) - 1)) ELSE s

strip(s) == rstrip(lstrip(s))

IsPlateCharOrDash(ch) == ch \in PlateChars \cup {"-"}

IsPlateChar(ch) == ch \in PlateChars

re_sub(s) == SelectSeq(s, IsPlateChar)

clean_text(raw) == re_sub(upper(strip(raw)))

-----------------------------------------------------------------------------
(* get_contours: the contours of the frame, largest area first, at most 30 *)
(* A contour c is a record                                                 *)
(*   area2   : 2 * cv2.contourArea(c) (the area of a polygon with integer  *)
(*             vertices is a multiple of 0.5)                              *)
(*   corners : len(cv2.approxPolyDP(c, 0.02 * peri, True))                 *)
(*   x,y,w,h : cv2.boundingRect(c)                                         *)
(*   ocr     : what pytesseract.image_to_string returns for the region, or *)
(*             OcrRaises                                                   *)

RECURSIVE InsertByAreaAscending(_, _)
InsertByAreaAscending(s, c) ==
  IF s = <<>> THEN <<c>>
  ELSE IF Head(s).area2 <= c.area2
       THEN <<Head(s)>> \o InsertByAreaAscending(Tail(s), c)
       ELSE <<c>> \o s

\* sorted(cnts, key=cv2.contourArea, reverse=True): stable, contours of equal
\* area keep the order findContours gave them.
RECURSIVE InsertByArea(_, _)
InsertByArea(s, c) ==
  IF s = <<>> THEN <<c>>
  ELSE IF Head(s).area2 >= c.area2
       THEN <<Head(s)>> \o InsertByArea(Tail(s), c)
       ELSE <<c>> \o s

RECURSIVE sorted(_)
sorted(cnts) ==
  IF cnts = <<>> THEN <<>>
  ELSE InsertByArea(sorted(SubSeq(cnts, 1, Len(cnts) - 1)), cnts[Len(cnts)])

get_contours(frame) ==
  LET s == sorted(frame)
  IN  SubSeq(s, 1, IF Len(s) < TopContours THEN Len(s) ELSE TopContours)

-----------------------------------------------------------------------------
(* process_image: the candidate loop                                       *)

AreaTooSmallOrEqual(c) == c.area2 <= 2 * MinArea

\* area = cv2.contourArea(c); if area < 300: continue
AreaTooSmall(c) == c.area2 < 2 * MinArea

CornersOk(c) == MinCorners <= c.corners /\ c.corners <= MaxCorners

\* aspect_ratio = w / float(h); 1.5 <= aspect_ratio <= 8.0.  For the
\* integer w, h of a bounding box the double w/h compares with 1.5 and 8.0
\* as the exact quotient does, so the test is 3h <= 2w and w <= 8h.
AspectOk(c) == 3 * c.h <= 2 * c.w /\ c.w <= 8 * c.h

\* roi = gray[y:y+h, x:x+w]; roi.size
roi_size(c) == c.w * c.h

bbox(c) == <<c.x, c.y, c.w, c.h>>

\* One iteration of "for c in contours"; st is the state of the loop:
\* results, the regions handed to OCR so far, and whether OCR has raised
\* (an exception leaves the loop and the function).
LoopBody(st, c) ==
  IF st.raised THEN st
  ELSE IF AreaTooSmall(c) THEN st
  ELSE IF ~CornersOk(c) THEN st
  ELSE IF ~AspectOk(c) THEN st
  ELSE IF roi_size(c) = 0 THEN st
  ELSE IF c.ocr = OcrRaises
       THEN [st EXCEPT !.calls = Append(@, c), !.raised = TRUE]
  ELSE LET text == clean_text(c.ocr)
       IN  [st EXCEPT !.calls = Append(@, c),
                      !.results = IF Len(text) >= MinTextLen
                                  THEN Append(@, [bbox |-> bbox(c),
                                                  text |-> text])
                                  ELSE @]

RECURSIVE CandidateLoop(_, _)
CandidateLoop(st, cs) ==
  IF cs = <<>> THEN st ELSE CandidateLoop(LoopBody(st, Head(cs)), Tail(cs))

LeakedSeen == seen

\* seen = set()
InitialSeen == {}

KeepAll(r, s) == TRUE

IsNew(r, s) == r.text \notin s

\* for r in results: if r['text'] not in seen: append, add
RECURSIVE DedupeLoop(_, _, _)
DedupeLoop(rs, s, unique) ==
  IF rs = <<>> THEN [unique |-> unique, seen |-> s]
  ELSE IF IsNew(Head(rs), s)
       THEN DedupeLoop(Tail(rs), s \cup {Head(rs).text},
                       Append(unique, Head(rs)))
       ELSE DedupeLoop(Tail(rs), s, unique)

\* recognizer.process_image(frame): every variable of the call
process_image(frame) ==
  LET cs == get_contours(frame)
      lp == CandidateLoop([results |-> <<>>, calls |-> <<>>,
                           raised |-> FALSE], cs)
      dd == DedupeLoop(lp.results, InitialSeen, <<>>)
  IN  /\ img' = frame
      /\ contours' = cs
      /\ ocr_calls' = lp.calls
      /\ results' = lp.results
      /\ IF lp.raised
         THEN /\ outcome' = "raised"
              /\ UNCHANGED <<seen, unique_results>>
         ELSE /\ outcome' = "returned"
              /\ seen' = dd.seen
              /\ unique_results' = dd.unique

-----------------------------------------------------------------------------
(* Inputs *)

RECURSIVE SeqsUpTo(_, _)
SeqsUpTo(S, n) ==
  IF n = 0 THEN {<<>>}
  ELSE LET shorter == SeqsUpTo(S, n - 1)
       IN  shorter \cup {Append(s, e) : s \in {t \in shorter : Len(t) = n - 1},
                                       e \in S}

\* Raw OCR answers: every string of at most MaxRawLen characters over a
\* lower-case letter, an upper-case letter, a digit, punctuation and blank,
\* or a failure of the engine.
RawChars == {"a", "B", "7", "-", " "}
RawAnswers == SeqsUpTo(RawChars, MaxRawLen) \cup {OcrRaises}

\* Contours around the limits of the filter: area 299.5, 300, 300.5;
\* 3, 4, 8, 9 corners; boxes of ratio 1.49999, 1.5, 8.0 and 8.05.
BoundaryAreas2 == {599, 600, 601}
BoundaryCorners == {3, 4, 8, 9}
BoundaryBoxes == {<<149999, 100000>>, <<30, 20>>, <<160, 20>>, <<161, 20>>}

BoundaryContours ==
  {[area2 |-> a, corners |-> k, x |-> 5, y |-> 7, w |-> b[1], h |-> b[2],
    ocr |-> o] :
     a \in BoundaryAreas2, k \in BoundaryCorners, b \in BoundaryBoxes,
     o \in RawAnswers}

\* A plate-shaped contour (area a, box at column x) that OCR reads as o.
Plate(a, x, o) ==
  [area2 |-> 2 * a, corners |-> 4, x |-> x, y |-> 10, w |-> 60, h |-> 20,
   ocr |-> o]

\* Contours of the frames passed to process_image by a caller: plates of
\* equal and of different areas, two different raw answers with the same
\* clean text, a text that is too short, a failing OCR call, and a
\* triangle that the filter rejects.
CallContours ==
  { Plate(500, 0, <<"a", "B", "7", "7">>),
    Plate(400, 70, <<" ", "A", "B", "-", "7", "7", "\n">>),
    Plate(400, 140, <<"7", "7", "7", "7">>),
    Plate(600, 210, <<"7", "7", "7", "7">>),
    Plate(500, 280, <<"a", "7">>),
    Plate(400, 350, OcrRaises),
    [Plate(600, 420, <<"a", "B", "7", "7">>) EXCEPT !.corners = 3] }

CallFrames == SeqsUpTo(CallContours, MaxContours)

\* Contours of the frames the camera delivers, and of the frames of a
\* caller that calls process_image repeatedly.
CameraContours ==
  { Plate(500, 0, <<"a", "B", "7", "7">>),
    Plate(400, 70, <<"7", "7", "7", "7">>),
    Plate(400, 350, OcrRaises) }

CameraFrames == SeqsUpTo(CameraContours, MaxCamContours)

-----------------------------------------------------------------------------
(* process_image called by a caller that imported the module *)

EmptyDict == [t \in {} |-> 0]

\* The state of a process that has imported main.py.
Imported ==
  /\ contours = <<>>
  /\ ocr_calls = <<>>
  /\ results = <<>>
  /\ seen = {}
  /\ unique_results = <<>>
  /\ outcome = "none"
  /\ first_call = <<>>
  /\ pc = "imported"
  /\ dunder_name = "main"
  /\ class_defined = TRUE
  /\ cap = "none"
  /\ frame_count = 0
  /\ detected_plates = EmptyDict
  /\ last_detected_plate = None
  /\ saved = <<>>
  /\ exc = "none"
  /\ exit_code = Running
  /\ read_failed = FALSE
  /\ n_calls = 0

\* One call on a frame with one contour at the limits of the filter.
InitUnit == Imported /\ img \in {<<c>> : c \in BoundaryContours}

CallOnContour ==
  /\ outcome = "none"
  /\ process_image(img)
  /\ UNCHANGED first_call
  /\ UNCHANGED mainvars

NextUnit == CallOnContour

SpecUnit == InitUnit /\ [][NextUnit]_vars

\* One call on a frame with several contours.
InitCall == Imported /\ img \in CallFrames

CallOnFrame ==
  /\ outcome = "none"
  /\ process_image(img)
  /\ UNCHANGED first_call
  /\ UNCHANGED mainvars

NextCall == CallOnFrame

SpecCall == InitCall /\ [][NextCall]_vars

\* Calls one after the other on the same recognizer.  The first call of the
\* run is remembered, with whether a different frame has been processed
\* since (between) and whether the last call repeats its frame (again).
InitRepeat == Imported /\ img = <<>>

CallAgain ==
  \E frame \in CameraFrames :
    /\ process_image(frame)
    /\ first_call' =
         IF first_call = <<>>
         THEN <<[img |-> frame, outcome |-> outcome',
                 ret |-> unique_results', between |-> FALSE,
                 again |-> FALSE]>>
         ELSE <<[first_call[1] EXCEPT
                   !.between = @ \/ frame # first_call[1].img,
                   !.again = (frame = first_call[1].img)]>>
    /\ UNCHANGED mainvars

NextRepeat == CallAgain

SpecRepeat == InitRepeat /\ [][NextRepeat]_vars

-----------------------------------------------------------------------------
(* The script: main.py executed as __main__ or loaded as a module *)

Init ==
  /\ img = <<>>
  /\ contours = <<>>
  /\ ocr_calls = <<>>
  /\ results = <<>>
  /\ seen = {}
  /\ unique_results = <<>>
  /\ outcome = "none"
  /\ first_call = <<>>
  /\ pc = "start"
  /\ dunder_name \in {"__main__", "main"}
  /\ class_defined = FALSE
  /\ cap = "none"
  /\ frame_count = 0
  /\ detected_plates = EmptyDict
  /\ last_detected_plate = None
  /\ saved = <<>>
  /\ exc = "none"
  /\ exit_code = Running
  /\ read_failed = FALSE
  /\ n_calls = 0

GuardAlways == TRUE

\* if __name__ == "__main__":
MainGuard == dunder_name = "__main__"

\* The module body: the class statement, then the guard.
LoadModule ==
  /\ pc = "start"
  /\ class_defined' = TRUE
  /\ pc' = IF MainGuard THEN "open" ELSE "imported"
  /\ UNCHANGED <<pivars, first_call, dunder_name, cap, frame_count,
                 detected_plates, last_detected_plate, saved, exc, exit_code,
                 read_failed, n_calls>>

\* Lines 174-217: VideoCapture(0), then VideoCapture(1), exit(1) when
\* neither opens; otherwise the session state is initialised.
OpenCamera ==
  /\ pc = "open"
  /\ \E opened0, opened1 \in BOOLEAN :
       IF ~opened0 /\ ~opened1
       THEN /\ cap' = "closed"
            /\ exit_code' = 1
            /\ pc' = "exited"
            /\ UNCHANGED <<frame_count, detected_plates, last_detected_plate>>
       ELSE /\ cap' = "opened"
            /\ frame_count' = 0
            /\ detected_plates' = EmptyDict
            /\ last_detected_plate' = None
            /\ pc' = "loop"
            /\ UNCHANGED exit_code
  /\ UNCHANGED <<pivars, first_call, dunder_name, class_defined, saved, exc,
                 read_failed, n_calls>>

\* ret of cap.read(): a capture that is not open yields (False, None);
\* an open one yields a frame or fails.
ReadOk(delivers) == cap = "opened" /\ delivers

\* detected_plates.get(text, 0)
dict_get(d, k) == IF k \in DOMAIN d THEN d[k] ELSE 0

\* detected_plates[text] = v
dict_set(d, k, v) == [t \in DOMAIN d \cup {k} |-> IF t = k THEN v ELSE d[t]]

\* plate_region = gray[y:y+h, x:x+w]; plate_region.size
plate_region_size(r) == r.bbox[3] * r.bbox[4]

save_name_text_only(text, n) == <<"plate_detected", text, 0>>

\* f"plate_detected_{plate_text}_{frame_count}.jpg": the fields of the name
save_name(text, n) == <<"plate_detected", text, n>>

\* str(n) of the f-string, for n >= 0
RECURSIVE decimal(_)
decimal(n) ==
  IF n < 10 THEN <<Digits[n + 1]>>
  ELSE decimal(n \div 10) \o <<Digits[(n % 10) + 1]>>

\* The characters of the file name passed to cv2.imwrite.
file_name(name) ==
  (IF name[1] = "plate_detected"
   THEN <<"p","l","a","t","e","_","d","e","t","e","c","t","e","d">>
   ELSE <<"p","l","a","t","e">>)
    \o <<"_">> \o name[2] \o <<"_">> \o decimal(name[3])
    \o <<".","j","p","g">>

TrackSeenBefore(st, r, n) ==
  IF r.text \notin DOMAIN st.plates
  THEN [plates |-> dict_set(st.plates, r.text, 1),
        last |-> r.text,
        saved |-> Append(st.saved, save_name(r.text, n))]
  ELSE st

\* Lines 238-286, one detection of the frame; st is the session state.
Track(st, r, n) ==
  IF r.text # st.last
  THEN [plates |-> dict_set(st.plates, r.text, dict_get(st.plates, r.text) + 1),
        last |-> r.text,
        saved |-> IF plate_region_size(r) > 0
                  THEN Append(st.saved, save_name(r.text, n))
                  ELSE st.saved]
  ELSE st

RECURSIVE TrackAll(_, _, _)
TrackAll(st, rs, n) ==
  IF rs = <<>> THEN st ELSE TrackAll(Track(st, Head(rs), n), Tail(rs), n)

\* One iteration of the frame loop with a frame read: count it, process
\* it, track its detections, then waitKey.  An exception of process_image
\* leaves the loop for the finally clause and stays in flight.
Iteration ==
  /\ pc = "loop"
  /\ frame_count < MaxFrames
  /\ \E delivers \in BOOLEAN, frame \in CameraFrames, key \in {"q", "other"} :
       /\ ReadOk(delivers)
       /\ frame_count' = frame_count + 1
       /\ n_calls' = n_calls + 1
       /\ process_image(frame)
       /\ IF outcome' = "raised"
          THEN /\ exc' = "ocr"
               /\ pc' = "finally"
               /\ UNCHANGED <<detected_plates, last_detected_plate, saved>>
          ELSE LET st == TrackAll([plates |-> detected_plates,
                                   last |-> last_detected_plate,
                                   saved |-> saved],
                                  unique_results', frame_count')
               IN  /\ detected_plates' = st.plates
                   /\ last_detected_plate' = st.last
                   /\ saved' = st.saved
                   /\ pc' = IF key = "q" THEN "finally" ELSE "loop"
                   /\ UNCHANGED exc
  /\ UNCHANGED <<first_call, dunder_name, class_defined, cap, exit_code,
                 read_failed>>

\* if not ret: break
ReadFails ==
  /\ pc = "loop"
  /\ \E delivers \in BOOLEAN :
       /\ ~ReadOk(delivers)
       /\ read_failed' = TRUE
       /\ pc' = "finally"
  /\ UNCHANGED <<pivars, first_call, dunder_name, class_defined, cap,
                 frame_count, detected_plates, last_detected_plate, saved,
                 exc, exit_code, n_calls>>

\* except KeyboardInterrupt (taken between two iterations)
Interrupt ==
  /\ pc = "loop"
  /\ pc' = "finally"
  /\ UNCHANGED <<pivars, first_call, dunder_name, class_defined, cap,
                 frame_count, detected_plates, last_detected_plate, saved,
                 exc, exit_code, read_failed, n_calls>>

ReleaseIgnored == cap

\* cap.release()
Release == "released"

\* Lines 310-326: release and summary; an exception in flight then ends the
\* process, otherwise the script goes on at line 328.
Finally ==
  /\ pc = "finally"
  /\ cap' = Release
  /\ IF exc # "none"
     THEN pc' = "crashed" /\ exit_code' = 1
     ELSE pc' = "block2" /\ UNCHANGED exit_code
  /\ UNCHANGED <<pivars, first_call, dunder_name, class_defined, frame_count,
                 detected_plates, last_detected_plate, saved, exc,
                 read_failed, n_calls>>

\* Lines 328-336: frame_count = 0; detected_plates = {}
SecondBlock ==
  /\ pc = "block2"
  /\ frame_count' = 0
  /\ detected_plates' = EmptyDict
  /\ pc' = "loop2"
  /\ UNCHANGED <<pivars, first_call, dunder_name, class_defined, cap,
                 last_detected_plate, saved, exc, exit_code, read_failed,
                 n_calls>>

\* f"plate_{plate_text}_{frame_count}.jpg"
output_filename(text, n) == <<"plate", text, n>>

\* Lines 357-393, one detection of the frame.
Track2(st, r, n) ==
  [plates |-> dict_set(st.plates, r.text, dict_get(st.plates, r.text) + 1),
   last |-> st.last,
   saved |-> IF plate_region_size(r) > 0
             THEN Append(st.saved, output_filename(r.text, n))
             ELSE st.saved]

RECURSIVE TrackAll2(_, _, _)
TrackAll2(st, rs, n) ==
  IF rs = <<>> THEN st ELSE TrackAll2(Track2(st, Head(rs), n), Tail(rs), n)

\* Lines 338-404: one iteration of the second frame loop.
SecondIteration ==
  /\ pc = "loop2"
  /\ \E delivers \in BOOLEAN, frame \in CameraFrames, key \in {"q", "other"} :
       IF ReadOk(delivers) /\ frame_count < MaxFrames
       THEN /\ frame_count' = frame_count + 1
            /\ n_calls' = n_calls + 1
            /\ process_image(frame)
            /\ UNCHANGED <<read_failed, last_detected_plate>>
            /\ IF outcome' = "raised"
               THEN /\ exc' = "ocr"
                    /\ pc' = "finally2"
                    /\ UNCHANGED <<detected_plates, saved>>
               ELSE LET st == TrackAll2([plates |-> detected_plates,
                                         last |-> last_detected_plate,
                                         saved |-> saved],
                                        unique_results', frame_count')
                    IN  /\ detected_plates' = st.plates
                        /\ saved' = st.saved
                        /\ pc' = IF key = "q" THEN "finally2" ELSE "loop2"
                        /\ UNCHANGED exc
       ELSE /\ read_failed' = TRUE
            /\ pc' = "finally2"
            /\ UNCHANGED <<pivars, frame_count, detected_plates,
                           last_detected_plate, saved, exc, n_calls>>
  /\ UNCHANGED <<first_call, dunder_name, class_defined, cap, exit_code>>

\* Lines 405-420: release, summary, end of the script.
SecondFinally ==
  /\ pc = "finally2"
  /\ cap' = Release
  /\ IF exc # "none"
     THEN pc' = "crashed" /\ exit_code' = 1
     ELSE pc' = "done" /\ exit_code' = 0
  /\ UNCHANGED <<pivars, first_call, dunder_name, class_defined, frame_count,
                 detected_plates, last_detected_plate, saved, exc,
                 read_failed, n_calls>>

Next ==
  \/ LoadModule
  \/ OpenCamera
  \/ Iteration
  \/ ReadFails
  \/ Interrupt
  \/ Finally
  \/ SecondBlock
  \/ SecondIteration
  \/ SecondFinally

Spec == Init /\ [][Next]_vars

-----------------------------------------------------------------------------
(* Properties of process_image *)

Returned == outcome = "returned"

\* area >= 300, 4 to 8 corners, 1.5 <= w/h <= 8.0
Qualifies(c) ==
  /\ c.area2 >= 600
  /\ c.corners >= 4 /\ c.corners <= 8
  /\ 2 * c.w >= 3 * c.h
  /\ c.w <= 8 * c.h

\* C1: the list returned by process_image contains no two detections with
\* the same text.
NoDuplicateText ==
  Returned =>
    \A i, j \in DOMAIN unique_results :
      unique_results[i].text = unique_results[j].text => i = j

DuplicateDropped ==
  /\ Returned
  /\ Len(unique_results) >= 2
  /\ \E i, j \in DOMAIN results :
       i < j /\ results[i].text = results[j].text
             /\ results[i].bbox # results[j].bbox

\* C2: every returned detection has a text of at least 4 characters, all of
\* them among A-Z and 0-9, whatever the raw OCR answer was.
AZ09 ==
  {"A","B","C","D","E","F","G","H","I","J","K","L","M","N","O","P","Q","R",
   "S","T","U","V","W","X","Y","Z","0","1","2","3","4","5","6","7","8","9"}

TextIsPlateLike ==
  Returned =>
    \A i \in DOMAIN unique_results :
      /\ Len(unique_results[i].text) >= 4
      /\ \A k \in DOMAIN unique_results[i].text :
           unique_results[i].text[k] \in AZ09

RawAnswerCleaned ==
  /\ Returned
  /\ Len(unique_results) = 1
  /\ Len(img) = 1
  /\ img[1].ocr # unique_results[1].text
  /\ \E k \in DOMAIN img[1].ocr : img[1].ocr[k] = "a"

\* C3: when OCR raises for a candidate, process_image still returns
\* normally, with the detections of the other candidates.
OcrFailureIsEmptyResult ==
  (outcome # "none" /\ \E i \in DOMAIN contours :
                         Qualifies(contours[i]) /\ contours[i].ocr = OcrRaises)
    => /\ Returned
       /\ \A i \in DOMAIN contours :
            (/\ Qualifies(contours[i])
             /\ contours[i].ocr # OcrRaises
             /\ Len(clean_text(contours[i].ocr)) >= 4)
              => \E k \in DOMAIN unique_results :
                   unique_results[k].text = clean_text(contours[i].ocr)

\* C4: a contour is passed to OCR iff its area is >= 300, it has 4 to 8
\* corners and 1.5 <= w/h <= 8.0, all bounds inclusive; a frame without
\* such a contour yields an empty result.
FilterIsInclusive ==
  outcome # "none" =>
    /\ \A i \in DOMAIN contours :
         Qualifies(contours[i]) <=> \E k \in DOMAIN ocr_calls :
                                      ocr_calls[k] = contours[i]
    /\ (\A i \in DOMAIN img : ~Qualifies(img[i]))
         => Returned /\ unique_results = <<>>

BoundaryContourAccepted ==
  /\ outcome # "none"
  /\ Len(ocr_calls) = 1
  /\ ocr_calls[1].area2 = 600
  /\ ocr_calls[1].corners = 4
  /\ ocr_calls[1].w = 30 /\ ocr_calls[1].h = 20

\* C5: the result keeps, for each distinct text, the first of the accepted
\* detections in descending-area contour order, in unchanged relative order
\* and with the bbox of that first occurrence.
FirstIdx == {i \in DOMAIN results :
               \A j \in DOMAIN results : j < i =>
                 results[j].text # results[i].text}

Nth(k) == CHOOSE i \in FirstIdx : Cardinality({j \in FirstIdx : j <= i}) = k

AreaOfBox(b) ==
  LET i == CHOOSE i \in DOMAIN img : <<img[i].x, img[i].y, img[i].w,
                                        img[i].h>> = b
  IN  img[i].area2

KeepsFirstOccurrence ==
  Returned =>
    /\ Len(unique_results) = Cardinality(FirstIdx)
    /\ \A k \in DOMAIN unique_results : unique_results[k] = results[Nth(k)]
    /\ \A i, j \in DOMAIN results :
         i < j => AreaOfBox(results[i].bbox) >= AreaOfBox(results[j].bbox)

LargerDuplicateKept ==
  /\ Returned
  /\ Len(results) = 3
  /\ Len(unique_results) = 2
  /\ contours # img
  /\ results[1].text = results[3].text

\* C6: a call on the frame of the first call of the run has the outcome of
\* that first call, whatever was processed in between.
SameFrameSameResult ==
  (first_call # <<>> /\ img = first_call[1].img) =>
    /\ outcome = first_call[1].outcome
    /\ Returned => unique_results = first_call[1].ret

RepeatedAfterOtherFrame ==
  /\ first_call # <<>>
  /\ first_call[1].again
  /\ first_call[1].between
  /\ Returned
  /\ Len(unique_results) = 2

-----------------------------------------------------------------------------
(* Properties of the script *)

\* C7: during one run the mapping from plate text to count only grows: a
\* text stays in it and its count never decreases.
SessionStateOnlyGrows ==
  [][\A t \in DOMAIN detected_plates :
       /\ t \in DOMAIN detected_plates'
       /\ detected_plates'[t] >= detected_plates[t]]_vars

\* C8: in the session loop each distinct plate text causes at most one file
\* write.
OneWritePerText ==
  \A i, j \in DOMAIN saved :
    (/\ saved[i][1] = "plate_detected"
     /\ saved[j][1] = "plate_detected"
     /\ saved[i][2] = saved[j][2]) => i = j

\* C9: a failed camera read is not followed by a process_image call for
\* that iteration; the loop ends, nothing is processed, counted or saved
\* afterwards, and the camera is released.
NothingAfterFailedRead ==
  /\ [][(read_failed' /\ ~read_failed) =>
          (n_calls' = n_calls /\ pivars' = pivars /\ pc' # "loop")]_vars
  /\ [][read_failed =>
          /\ n_calls' = n_calls
          /\ pivars' = pivars
          /\ saved' = saved
          /\ frame_count' <= frame_count
          /\ \A t \in DOMAIN detected_plates' :
               /\ t \in DOMAIN detected_plates
               /\ detected_plates'[t] <= detected_plates[t]
          /\ pc' # "loop"]_vars
  /\ [](read_failed =>
          (pc \in {"block2", "loop2", "finally2", "done", "crashed"}
             => cap = "released"))

FailedReadAfterFrames ==
  /\ read_failed
  /\ pc = "done"
  /\ cap = "released"
  /\ n_calls >= 2
  /\ saved # <<>>

\* C10: loading main.py under another name than __main__ only defines the
\* class: no camera is opened, no frame loop entered, no exit.
ImportOnlyDefines ==
  dunder_name # "__main__" =>
    /\ pc \in {"start", "imported"}
    /\ pc = "imported" => class_defined
    /\ cap = "none"
    /\ exit_code = Running
    /\ n_calls = 0
    /\ frame_count = 0
    /\ saved = <<>>

ImportedAsModule ==
  /\ dunder_name = "main"
  /\ pc = "imported"
  /\ class_defined

\* C11: in the session loop a detection is reported (count incremented,
\* crop saved) exactly when its text differs from last_detected_plate, the
\* most recently reported text, which is then set to that text; a plate
\* seen again after another plate was reported is reported again.
\* The step of the session loop that processed a frame:
FrameTracked == pc = "loop" /\ n_calls' = n_calls + 1 /\ outcome' = "returned"

\* last_detected_plate when the k-th detection of the frame is examined:
\* the text of the detection before it, reported or equal to the last one.
LastBefore(k) ==
  IF k = 1 THEN last_detected_plate ELSE unique_results'[k - 1].text

Reported(k) == unique_results'[k].text # LastBefore(k)

ReportedIdx == {k \in DOMAIN unique_results' : Reported(k)}

CountOf(d, t) == IF t \in DOMAIN d THEN d[t] ELSE 0

ReportedIffNotLast ==
  [][FrameTracked =>
       /\ Len(saved') = Len(saved) + Cardinality(ReportedIdx)
       /\ SubSeq(saved', 1, Len(saved)) = saved
       /\ \A k \in ReportedIdx :
            saved'[Len(saved) + Cardinality({j \in ReportedIdx : j <= k})]
              = <<"plate_detected", unique_results'[k].text, frame_count'>>
       /\ \A t \in DOMAIN detected_plates \cup DOMAIN detected_plates' :
            CountOf(detected_plates', t) =
              CountOf(detected_plates, t)
                + Cardinality({k \in ReportedIdx :
                                 unique_results'[k].text = t})
       /\ DOMAIN detected_plates' =
            DOMAIN detected_plates
              \cup {unique_results'[k].text : k \in ReportedIdx}
       /\ last_detected_plate' =
            IF unique_results' = <<>> THEN last_detected_plate
            ELSE unique_results'[Len(unique_results')].text]_vars

ReportedAgainAfterOther ==
  /\ \E i, j, k \in DOMAIN saved :
       /\ i < j /\ j < k
       /\ saved[i][2] = saved[k][2]
       /\ saved[i][2] # saved[j][2]
       /\ saved[i][3] < saved[k][3]
  /\ \E t \in DOMAIN detected_plates : detected_plates[t] >= 2

\* C12: within one run of the frame loop no two file writes use the same
\* file name plate_detected_<TEXT>_<FRAME>.jpg: the frame counter grows by
\* one per frame read and the texts reported for one frame are pairwise
\* distinct, so no saved crop is overwritten by a later one.
NoFileNameReused ==
  /\ [](\A i, j \in DOMAIN saved :
          (/\ saved[i][1] = "plate_detected"
           /\ saved[j][1] = "plate_detected"
           /\ file_name(saved[i]) = file_name(saved[j])) => i = j)
  /\ [][(pc = "loop" /\ n_calls' = n_calls + 1)
          => frame_count' = frame_count + 1]_vars
  /\ [][FrameTracked =>
          \A i, j \in DOMAIN saved' :
            (i > Len(saved) /\ j > Len(saved) /\ saved'[i][2] = saved'[j][2])
              => i = j]_vars

SameTextSavedOnTwoFrames ==
  /\ frame_count = MaxFrames
  /\ Len(saved) >= 4
  /\ \E i, j \in DOMAIN saved :
       /\ saved[i][2] = saved[j][2]
       /\ saved[i][3] # saved[j][3]
       /\ file_name(saved[i]) # file_name(saved[j])

====
